---- MODULE Spec2Model ----
(***************************************************************************)
(* Model of analizador_de_Redes.py: the Wi-Fi data relay.                  *)
(*                                                                         *)
(* Text is a sequence of one-character strings.  Two specifications:       *)
(*   SpecParse  the record parser (_parse_wifi_line, _parse_wifi_content)  *)
(*              applied to bounded families of input text;                 *)
(*   Spec       the serve loop and the request handler.                    *)
(***************************************************************************)
EXTENDS Integers, Sequences, FiniteSets, TLC

VARIABLES
    pin,      \* parser input: [kind, fields, text]
    pout,     \* parser output: [state, ok, cleaned, recs, err]
    pc,       \* position of the server: "idle", "accepted", "handled", "stopped"
    req,      \* the request being handled: [method, path]
    env,      \* what the environment does to this request: [up, fails, fs]
    wire,     \* chunks written to the client socket for this request
    raised,   \* an exception left the handler (to socketserver's handle_error)
    fetches,  \* upstream fetches performed for this request
    ref,      \* a remembered earlier request: [set, req, env, wire, fetches]
    failedBefore, \* an earlier request ended with an error
    interrupted   \* the serve loop was left by KeyboardInterrupt

vars == <<pin, pout, pc, req, env, wire, raised, fetches, ref, failedBefore, interrupted>>
parseVars == <<pin, pout>>
serverVars == <<pc, req, env, wire, raised, fetches, ref, failedBefore, interrupted>>

(***************************************************************************)
(* Bounds of the input families.                                           *)
(***************************************************************************)
MaxRawLen == 5
MaxShortFields == 3
MaxFields == 17
MaxLines == 3

(***************************************************************************)
(* Characters and strings.                                                 *)
(***************************************************************************)
QUOTE == "\""
COMMA == ","
NL == "\n"
SP == " "
Digits == <<"0", "1", "2", "3", "4", "5", "6", "7", "8", "9">>
DigitSet == {Digits[i] : i \in 1..10}
DigitVal(c) == (CHOOSE i \in 1..10 : Digits[i] = c) - 1

\* str.strip() with no argument removes whitespace; of the characters used
\* here the space and the newline are whitespace.
Whitespace == {SP, NL}

\* s.lstrip(chars) / s.rstrip(chars) / s.strip(chars)
LStrip(s, cs) ==
    LET keep == {i \in 1..Len(s) : s[i] \notin cs}
    IN  IF keep = {} THEN <<>>
        ELSE SubSeq(s, CHOOSE i \in keep : \A j \in keep : i <= j, Len(s))
RStrip(s, cs) ==
    LET keep == {i \in 1..Len(s) : s[i] \notin cs}
    IN  IF keep = {} THEN <<>>
        ELSE SubSeq(s, 1, CHOOSE i \in keep : \A j \in keep : i >= j)
StripChars(s, cs) == RStrip(LStrip(s, cs), cs)
Strip(s) == StripChars(s, Whitespace)

\* sep.join(parts)
RECURSIVE Join(_, _)
Join(parts, sep) ==
    IF parts = <<>> THEN <<>>
    ELSE IF Len(parts) = 1 THEN parts[1]
    ELSE parts[1] \o <<sep>> \o Join(Tail(parts), sep)

\* s.split(sep): always at least one piece
RECURSIVE Split(_, _)
Split(s, sep) ==
    LET at == {i \in 1..Len(s) : s[i] = sep}
    IN  IF at = {} THEN <<s>>
        ELSE LET i == CHOOSE i \in at : \A j \in at : i <= j
             IN  <<SubSeq(s, 1, i - 1)>> \o Split(SubSeq(s, i + 1, Len(s)), sep)

(***************************************************************************)
(* Values of a record's fields: a string, a float or an int.  A float is   *)
(* the decimal num/den with den a power of ten, in lowest such terms.      *)
(***************************************************************************)
StrV(s) == [t |-> "str", s |-> s, neg |-> FALSE, num |-> 0, den |-> 1]
FloatV(neg, num, den) == [t |-> "float", s |-> <<>>, neg |-> neg, num |-> num, den |-> den]
IntV(neg, num) == [t |-> "int", s |-> <<>>, neg |-> (neg /\ num # 0), num |-> num, den |-> 1]

Ok(v) == [ok |-> TRUE, val |-> v, err |-> "", tok |-> <<>>]
ValueError(what, tok) == [ok |-> FALSE, val |-> StrV(<<>>), err |-> what, tok |-> tok]

RECURSIVE ToNat(_)
ToNat(ds) ==
    IF ds = <<>> THEN 0
    ELSE 10 * ToNat(SubSeq(ds, 1, Len(ds) - 1)) + DigitVal(ds[Len(ds)])

RECURSIVE Pow10(_)
Pow10(n) == IF n = 0 THEN 1 ELSE 10 * Pow10(n - 1)

RECURSIVE Reduce(_, _, _)
Reduce(neg, num, den) ==
    IF den > 1 /\ num % 10 = 0 THEN Reduce(neg, num \div 10, den \div 10)
    ELSE FloatV(neg, num, den)

AllDigits(s) == \A i \in 1..Len(s) : s[i] \in DigitSet

\* int(tok) for text over the characters used here: an optional sign and
\* one or more digits; anything else raises ValueError.
ToInt(tok) ==
    LET neg  == tok # <<>> /\ tok[1] = "-"
        body == IF neg THEN Tail(tok) ELSE tok
    IN  IF body # <<>> /\ AllDigits(body)
        THEN Ok(IntV(neg, ToNat(body)))
        ELSE ValueError("invalid literal for int() with base 10", tok)

\* float(tok) for text over the characters used here: an optional sign,
\* digits with at most one point and at least one digit.
ToFloat(tok) ==
    LET neg  == tok # <<>> /\ tok[1] = "-"
        body == IF neg THEN Tail(tok) ELSE tok
        dots == {i \in 1..Len(body) : body[i] = "."}
        ip   == IF dots = {} THEN body
                ELSE SubSeq(body, 1, (CHOOSE i \in dots : TRUE) - 1)
        fp   == IF dots = {} THEN <<>>
                ELSE SubSeq(body, (CHOOSE i \in dots : TRUE) + 1, Len(body))
    IN  IF Cardinality(dots) <= 1 /\ AllDigits(ip) /\ AllDigits(fp)
           /\ Len(ip) + Len(fp) > 0
        THEN Ok(Reduce(neg, ToNat(ip \o fp), Pow10(Len(fp))))
        ELSE ValueError("could not convert string to float", tok)

(***************************************************************************)
(* _parse_wifi_line                                                        *)
(***************************************************************************)
\* re.findall(r'([^,"]+|"[^"]*")', line): scanning from the left, a longest
\* run without comma or quote, else a quoted span up to the next quote,
\* else the character is skipped.
RECURSIVE Scan(_, _)
Scan(line, i) ==
    IF i > Len(line) THEN <<>>
    ELSE IF line[i] \notin {COMMA, QUOTE}
    THEN LET stop == {j \in i..Len(line) : line[j] \in {COMMA, QUOTE}}
             e    == IF stop = {} THEN Len(line)
                     ELSE (CHOOSE j \in stop : \A k \in stop : j <= k) - 1
         IN  <<SubSeq(line, i, e)>> \o Scan(line, e + 1)
    ELSE LET close == {j \in (i + 1)..Len(line) : line[j] = QUOTE}
         IN  IF line[i] = QUOTE /\ close # {}
             THEN LET e == CHOOSE j \in close : \A k \in close : j <= k
                  IN  <<SubSeq(line, i, e)>> \o Scan(line, e + 1)
             ELSE Scan(line, i + 1)

\* Faulty variant: the line is cut at every comma, quoted or not.
FindAllCommaSplit(line) == SelectSeq(Split(line, COMMA), LAMBDA f : f # <<>>)

FindAll(line) == Scan(line, 1)

\* Faulty variant: a token is dropped when it is empty after cleaning.
CleanedDropEmpty(line) ==
    LET fields == FindAll(line)
        clean  == [i \in 1..Len(fields) |-> Strip(StripChars(fields[i], {QUOTE}))]
    IN  SelectSeq(clean, LAMBDA f : f # <<>>)

\* [field.strip('"').strip() for field in fields if field.strip()]
cleaned_fields(line) ==
    LET fields == FindAll(line)
        kept   == SelectSeq(fields, LAMBDA f : Strip(f) # <<>>)
    IN  [i \in 1..Len(kept) |-> Strip(StripChars(kept[i], {QUOTE}))]

Keys == <<"bss", "tsf", "freq", "beacon", "capa", "signal", "ssid", "ht_capa",
          "primary_channel", "vht_capa", "he_capa", "he_phy_capa", "encryption",
          "cipher", "suite">>
KeySet == {Keys[i] : i \in 1..Len(Keys)}

Hex0 == <<"0", "x", "0">>

\* Faulty variant: the default is used one position too early.
StrFieldOffByOne(cf, i, dflt) == IF Len(cf) > i + 1 THEN Ok(StrV(cf[i + 1])) ELSE Ok(StrV(dflt))

\* cleaned_fields[i] if len(cleaned_fields) > i else dflt
StrField(cf, i, dflt) == IF Len(cf) > i THEN Ok(StrV(cf[i + 1])) ELSE Ok(StrV(dflt))

\* float(cleaned_fields[i]) if len(cleaned_fields) > i and cleaned_fields[i] else 0.0
FloatField(cf, i) ==
    IF Len(cf) > i /\ cf[i + 1] # <<>> THEN ToFloat(cf[i + 1]) ELSE Ok(FloatV(FALSE, 0, 1))

\* int(cleaned_fields[i]) if len(cleaned_fields) > i and cleaned_fields[i] else 0
IntField(cf, i) ==
    IF Len(cf) > i /\ cf[i + 1] # <<>> THEN ToInt(cf[i + 1]) ELSE Ok(IntV(FALSE, 0))

\* The dict display of the return statement, entry by entry.
FieldResults(cf) ==
    [bss |-> StrField(cf, 0, <<>>),
     tsf |-> StrField(cf, 1, <<>>),
     freq |-> FloatField(cf, 2),
     beacon |-> IntField(cf, 3),
     capa |-> StrField(cf, 4, Hex0),
     signal |-> FloatField(cf, 5),
     ssid |-> StrField(cf, 6, <<>>),
     ht_capa |-> StrField(cf, 7, Hex0),
     primary_channel |-> IntField(cf, 8),
     vht_capa |-> StrField(cf, 9, Hex0),
     he_capa |-> StrField(cf, 10, Hex0),
     he_phy_capa |-> StrField(cf, 11, <<>>),
     encryption |-> StrField(cf, 12, <<>>),
     cipher |-> StrField(cf, 13, <<>>),
     suite |-> StrField(cf, 14, <<>>)]

NoRecord == [k \in KeySet |-> StrV(<<>>)]
LineOk(rec) == [ok |-> TRUE, rec |-> rec, err |-> "", tok |-> <<>>]
LineError(e) == [ok |-> FALSE, rec |-> NoRecord, err |-> e.err, tok |-> e.tok]

\* The entries are evaluated in order; the first coercion that raises ends
\* the call with its ValueError.
_parse_wifi_line(line) ==
    LET res == FieldResults(cleaned_fields(line))
        bad == {i \in 1..Len(Keys) : ~res[Keys[i]].ok}
    IN  IF bad = {} THEN LineOk([k \in KeySet |-> res[k].val])
        ELSE LineError(res[Keys[CHOOSE i \in bad : \A j \in bad : i <= j]])

(***************************************************************************)
(* _parse_wifi_content                                                     *)
(***************************************************************************)
ContentOk(recs) == [ok |-> TRUE, recs |-> recs, err |-> "", tok |-> <<>>]
ContentError(e) == [ok |-> FALSE, recs |-> <<>>, err |-> e.err, tok |-> e.tok]

\* Faulty variant: a line that does not parse is skipped and the loop goes on.
RECURSIVE ParseLinesSkipBad(_, _)
ParseLinesSkipBad(lines, networks) ==
    IF lines = <<>> THEN ContentOk(networks)
    ELSE IF Strip(lines[1]) = <<>> \/ ~_parse_wifi_line(lines[1]).ok
    THEN ParseLinesSkipBad(Tail(lines), networks)
    ELSE ParseLinesSkipBad(Tail(lines), Append(networks, _parse_wifi_line(lines[1]).rec))

\* The loop over the lines, networks being the list built so far.
RECURSIVE ParseLines(_, _)
ParseLines(lines, networks) ==
    IF lines = <<>> THEN ContentOk(networks)
    ELSE IF Strip(lines[1]) = <<>> THEN ParseLines(Tail(lines), networks)
    ELSE LET network == _parse_wifi_line(lines[1])
         IN  IF ~network.ok THEN ContentError(network)
             ELSE ParseLines(Tail(lines), Append(networks, network.rec))

\* Faulty variant: every line gives a record, blank or not.
ParseContentKeepBlank(content) ==
    LET lines == Split(Strip(content), NL)
        recs  == [i \in 1..Len(lines) |-> _parse_wifi_line(lines[i])]
        bad   == {i \in 1..Len(lines) : ~recs[i].ok}
    IN  IF bad = {} THEN ContentOk([i \in 1..Len(lines) |-> recs[i].rec])
        ELSE ContentError(recs[CHOOSE i \in bad : \A j \in bad : i <= j])

\* lines = content.strip().split('\n'); a dict of 15 entries is always true,
\* so "if network" appends every parsed line.
_parse_wifi_content(content) == ParseLines(Split(Strip(content), NL), <<>>)

(***************************************************************************)
(* Input families of the parser.                                           *)
(***************************************************************************)
RECURSIVE SeqsUpTo(_, _)
SeqsUpTo(S, n) ==
    IF n = 0 THEN {<<>>}
    ELSE LET shorter == SeqsUpTo(S, n - 1)
         IN  shorter \cup {Append(q, x) : q \in {r \in shorter : Len(r) = n - 1}, x \in S}

\* Every line of at most MaxRawLen characters over these five.
RawChars == {"a", "1", COMMA, SP, QUOTE}
RawLines == SeqsUpTo(RawChars, MaxRawLen)

\* Lines of at most MaxShortFields comma-separated fields from this pool:
\* plain, padded, numeric, quoted with and without commas, empty quoted,
\* blank quoted, blank and empty.
FieldPool ==
    { <<"a">>, <<SP, "b", SP>>, <<"-", "6", "7", ".", "5">>, <<"7">>,
      <<QUOTE, "c", COMMA, "d", QUOTE>>, <<QUOTE, SP, "e", COMMA, SP, QUOTE>>,
      <<QUOTE, QUOTE>>, <<QUOTE, SP, QUOTE>>, <<SP>>, <<>> }
ShortFieldSeqs == SeqsUpTo(FieldPool, MaxShortFields)

\* Lines of k fields, the i-th being the number i in decimal, with one
\* position p replaced by a special field.
DecStr(n) == IF n < 10 THEN <<Digits[n + 1]>> ELSE <<Digits[(n \div 10) + 1], Digits[(n % 10) + 1]>>
Specials ==
    { <<QUOTE, "x", COMMA, "y", QUOTE>>, <<QUOTE, QUOTE>>, <<SP>>, <<"x">>,
      <<SP, "5", ".", "5", "0", SP>>, <<"-", "2">> }
LongFieldSeqs ==
    { [i \in 1..k |-> DecStr(i)] : k \in 0..MaxFields }
    \cup { [i \in 1..k |-> IF i = p THEN sp ELSE DecStr(i)] :
             k \in 1..MaxFields, p \in 1..MaxFields, sp \in Specials }

\* The two lines the documentation gives as examples, field by field.
ExampleShort ==
    <<<<"a", "a", ":", "b", "b", ":", "c", "c", ":", "d", "d", ":", "e", "e", ":", "f", "f">>,
      <<"1", "2", "3", "4", "5", "6">>>>
ExampleQuoted ==
    <<<<"a", "a", ":", "b", "b">>,
      <<"t", "s">>,
      <<"2", "4", "1", "2">>,
      <<"1", "0", "0">>,
      <<"0", "x", "0">>,
      <<"-", "5", "0">>,
      <<QUOTE, "M", "y", COMMA, SP, "H", "o", "m", "e", SP, "N", "e", "t", "w", "o", "r", "k", QUOTE>>,
      <<"0", "x", "0">>,
      <<"6">>>>
ExampleFieldSeqs == {ExampleShort, ExampleQuoted}
MyHomeNetwork == <<"M", "y", COMMA, SP, "H", "o", "m", "e", SP, "N", "e", "t", "w", "o", "r", "k">>

\* Texts of at most MaxLines lines from this pool.
LinePool ==
    { <<>>, <<SP>>, <<"a", COMMA, "1">>, <<SP, "b">>, <<COMMA>>,
      <<"a", COMMA, "b", COMMA, "x">>,
      <<QUOTE, "q", COMMA, "r", QUOTE, COMMA, "2", SP>> }
LineSeqs == SeqsUpTo(LinePool, MaxLines)

NoInput == [kind |-> "none", fields |-> <<>>, text |-> <<>>]
ParserInputs ==
    { [kind |-> "raw", fields |-> <<>>, text |-> l] : l \in RawLines }
    \cup { [kind |-> "fields", fields |-> fs, text |-> Join(fs, COMMA)] :
             fs \in ShortFieldSeqs \cup LongFieldSeqs \cup ExampleFieldSeqs }
    \cup { [kind |-> "content", fields |-> ls, text |-> Join(ls, NL)] : ls \in LineSeqs }

NoOutput ==
    [done |-> FALSE, cleaned |-> <<>>, line |-> LineOk(NoRecord), content |-> ContentOk(<<>>)]

(***************************************************************************)
(* The server before any request.                                          *)
(***************************************************************************)
NoReq == [method |-> "", path |-> ""]
NoEnv == [up |-> [kind |-> "none", text |-> <<>>], fails |-> {}, fs |-> "missing"]
NoRef == [set |-> FALSE, req |-> NoReq, env |-> NoEnv, wire |-> <<>>, fetches |-> 0]

ServerIdle ==
    /\ pc = "idle"
    /\ req = NoReq
    /\ env = NoEnv
    /\ wire = <<>>
    /\ raised = FALSE
    /\ fetches = 0
    /\ ref = NoRef
    /\ failedBefore = FALSE
    /\ interrupted = FALSE

(***************************************************************************)
(* SpecParse: the parser applied to each input.                            *)
(***************************************************************************)
InitParse ==
    /\ pin \in ParserInputs
    /\ pout = NoOutput
    /\ ServerIdle

ParseLine ==
    /\ pin.kind \in {"raw", "fields"}
    /\ ~pout.done
    /\ pout' = [done |-> TRUE,
                cleaned |-> cleaned_fields(pin.text),
                line |-> _parse_wifi_line(pin.text),
                content |-> ContentOk(<<>>)]
    /\ UNCHANGED <<pin, serverVars>>

ParseContent ==
    /\ pin.kind = "content"
    /\ ~pout.done
    /\ pout' = [done |-> TRUE,
                cleaned |-> <<>>,
                line |-> LineOk(NoRecord),
                content |-> _parse_wifi_content(pin.text)]
    /\ UNCHANGED <<pin, serverVars>>

NextParse == ParseLine \/ ParseContent

SpecParse == InitParse /\ [][NextParse]_vars

(***************************************************************************)
(* The request handler.  What http.server does for the handler is kept to  *)
(* what the responses depend on: send_response and send_header append to   *)
(* the header buffer, end_headers appends the blank line and writes the    *)
(* buffer to the socket (emptying it only when the write succeeds), and    *)
(* wfile.write writes the body.  The write attempts of a request are       *)
(* numbered; the environment decides which of them raise.  The Server and  *)
(* Date headers that send_response adds are left out.                      *)
(***************************************************************************)
StatusLine(code) == [status |-> code, name |-> "", value |-> ""]
Header(name, value) == [status |-> 0, name |-> name, value |-> value]
BlankLine == [status |-> 0, name |-> "", value |-> ""]

NoMsg == [prefix |-> "", err |-> "", tok |-> <<>>]
NoBody == [t |-> "none", recs |-> <<>>, msg |-> NoMsg, text |-> ""]
HeadChunk(lines) == [k |-> "head", lines |-> lines, data |-> NoBody]
BodyChunk(data) == [k |-> "body", lines |-> <<>>, data |-> data]

\* json.dumps(wifi_data, indent=2).encode('utf-8')
JsonArray(recs) == [NoBody EXCEPT !.t = "json_array", !.recs = recs]
\* json.dumps({"error": message}).encode('utf-8')
JsonError(msg) == [NoBody EXCEPT !.t = "json_error", !.msg = msg]
PlainText(text) == [NoBody EXCEPT !.t = "text", !.text = text]
HtmlError(text) == [NoBody EXCEPT !.t = "html", !.text = text]

NoExc == [raised |-> FALSE, err |-> "", tok |-> <<>>]
Exc(err, tok) == [raised |-> TRUE, err |-> err, tok |-> tok]
NewIO == [buf |-> <<>>, wire |-> <<>>, n |-> 0, exc |-> NoExc, fetches |-> 0]

send_response(io, code) == [io EXCEPT !.buf = Append(@, StatusLine(code))]
send_header(io, name, value) == [io EXCEPT !.buf = Append(@, Header(name, value))]

\* One write attempt on the client socket.
SocketWrite(io, chunk, fails) ==
    IF io.n + 1 \in fails
    THEN [io EXCEPT !.n = @ + 1, !.exc = Exc("Broken pipe", <<>>)]
    ELSE [io EXCEPT !.n = @ + 1, !.wire = Append(@, chunk)]

end_headers(io, fails) ==
    LET full == Append(io.buf, BlankLine)
        w    == SocketWrite([io EXCEPT !.buf = full], HeadChunk(full), fails)
    IN  IF w.exc.raised THEN w ELSE [w EXCEPT !.buf = <<>>]

NotFoundText == "Ruta no encontrada. Use /air para obtener datos Wi-Fi."
ErrorPrefix == "Error procesando datos: "

\* _serve_404
_serve_404(io, fails) ==
    LET h == end_headers(
               send_header(send_response(io, 404),
                           "Content-Type", "text/plain; charset=utf-8"), fails)
    IN  IF h.exc.raised THEN h
        ELSE SocketWrite(h, BodyChunk(PlainText(NotFoundText)), fails)

\* _serve_error(message)
_serve_error(io, message, fails) ==
    LET h == end_headers(
               send_header(send_response(io, 500),
                           "Content-Type", "application/json; charset=utf-8"), fails)
    IN  IF h.exc.raised THEN h
        ELSE SocketWrite(h, BodyChunk(JsonError(message)), fails)

\* What the fixed URL answers for one request: urlopen raises, the body is
\* not UTF-8, or a text.
NoUp == [kind |-> "none", text |-> <<>>]
UpstreamTexts ==
    { <<>>,
      <<"a", COMMA, "1">>,
      <<"a", COMMA, "b", COMMA, "x">>,
      <<"a", COMMA, "1", NL, "a", COMMA, "b", COMMA, "x">>,
      <<"a", COMMA, "1", NL, NL, SP, "b", NL>> }
Upstreams ==
    { [kind |-> "urlerror", text |-> <<>>], [kind |-> "undecodable", text |-> <<>>] }
    \cup { [kind |-> "text", text |-> t] : t \in UpstreamTexts }

\* Faulty variant: after a failed request the fetch is not made again and fails.
FetchRemembersFailure(up) ==
    IF failedBefore THEN ContentError(Exc("upstream marked down", <<>>))
    ELSE IF up.kind = "text" THEN _parse_wifi_content(up.text)
    ELSE ContentError(Exc("urlopen error", <<>>))

\* _fetch_and_parse_wifi_data: urlopen, read, decode, parse
_fetch_and_parse_wifi_data(up) ==
    IF up.kind = "urlerror" THEN ContentError(Exc("urlopen error", <<>>))
    ELSE IF up.kind = "undecodable"
    THEN ContentError(Exc("'utf-8' codec can't decode byte", <<>>))
    ELSE _parse_wifi_content(up.text)

\* f"Error procesando datos: {str(e)}"
Message(e) == [prefix |-> ErrorPrefix, err |-> e.err, tok |-> e.tok]

\* _serve_wifi_data: everything from the fetch to the write of the body is
\* inside the try; the except clause calls _serve_error.
_serve_wifi_data(io, up, fails) ==
    LET wifi_data == _fetch_and_parse_wifi_data(up)
        fetched   == [io EXCEPT !.fetches = @ + 1]
        h == end_headers(
               send_header(
                 send_header(send_response(fetched, 200),
                             "Content-Type", "application/json; charset=utf-8"),
                 "Access-Control-Allow-Origin", "*"), fails)
        b == IF h.exc.raised THEN h
             ELSE SocketWrite(h, BodyChunk(JsonArray(wifi_data.recs)), fails)
    IN  IF ~wifi_data.ok THEN _serve_error(fetched, Message(wifi_data), fails)
        ELSE IF b.exc.raised
        THEN _serve_error([b EXCEPT !.exc = NoExc], Message(b.exc), fails)
        ELSE b

\* Faulty variant: every path under /air is served as /air.
DoGetPrefix(io, path, up, fails) ==
    IF path \in {"/air", "/air/", "/air?x=1"} THEN _serve_wifi_data(io, up, fails)
    ELSE _serve_404(io, fails)

\* do_GET
do_GET(io, path, up, fails) ==
    IF path = "/air" THEN _serve_wifi_data(io, up, fails)
    ELSE _serve_404(io, fails)

\* The inherited SimpleHTTPRequestHandler.do_HEAD: the headers of what the
\* path names in the working directory, fs being a file or a listable
\* directory ("file"), a directory named without its slash ("redirect") or
\* nothing ("missing").  No body is written for HEAD.
do_HEAD(io, fs, fails) ==
    LET code == IF fs = "file" THEN 200 ELSE IF fs = "redirect" THEN 301 ELSE 404
    IN  end_headers(send_response(io, code), fails)

\* The inherited send_error(501, "Unsupported method (...)") of
\* handle_one_request for a method the class has no do_ method for.
send_error_501(io, fails) ==
    LET h == end_headers(
               send_header(send_response(io, 501),
                           "Content-Type", "text/html;charset=utf-8"), fails)
    IN  IF h.exc.raised THEN h
        ELSE SocketWrite(h, BodyChunk(HtmlError("Unsupported method")), fails)

\* getattr(self, 'do_' + command): the class defines do_GET and inherits
\* do_HEAD; it has no other do_ method.
MethodHandler(method) ==
    IF method = "GET" THEN "do_GET"
    ELSE IF method = "HEAD" THEN "do_HEAD"
    ELSE "send_error_501"

(***************************************************************************)
(* Spec: the serve loop of run_server.                                     *)
(***************************************************************************)
Methods == {"GET", "HEAD", "POST"}
Paths == {"/air", "/foo", "/air/", "/air?x=1"}
FsEntries == {"file", "redirect", "missing"}
Attempts == 1..4

Init ==
    /\ pin = NoInput
    /\ pout = NoOutput
    /\ ServerIdle

\* serve_forever accepts a connection and reads the request line.
Accept(method, path) ==
    /\ pc = "idle"
    /\ pc' = "accepted"
    /\ req' = [method |-> method, path |-> path]
    /\ UNCHANGED <<env, wire, raised, fetches, ref, failedBefore, interrupted, parseVars>>

\* The handler has run to its end, or an exception has left it.
Handled(io, up, fails, fs) ==
    /\ fails \subseteq 1..io.n
    /\ (up = NoUp) <=> (io.fetches = 0)
    /\ pc' = "handled"
    /\ env' = [up |-> up, fails |-> fails, fs |-> fs]
    /\ wire' = io.wire
    /\ raised' = io.exc.raised
    /\ fetches' = io.fetches
    /\ UNCHANGED <<req, ref, failedBefore, interrupted, parseVars>>

DoGet ==
    /\ pc = "accepted"
    /\ MethodHandler(req.method) = "do_GET"
    /\ \E up \in Upstreams \cup {NoUp}, fails \in SUBSET Attempts :
         Handled(do_GET(NewIO, req.path, up, fails), up, fails, "missing")

DoHead ==
    /\ pc = "accepted"
    /\ MethodHandler(req.method) = "do_HEAD"
    /\ \E fs \in FsEntries, fails \in SUBSET Attempts :
         Handled(do_HEAD(NewIO, fs, fails), NoUp, fails, fs)

Unsupported ==
    /\ pc = "accepted"
    /\ MethodHandler(req.method) = "send_error_501"
    /\ \E fails \in SUBSET Attempts :
         Handled(send_error_501(NewIO, fails), NoUp, fails, "missing")

\* The status codes of the status lines written, and how many there are.
Statuses(w) ==
    UNION { {w[i].lines[j].status : j \in 1..Len(w[i].lines)} : i \in 1..Len(w) } \ {0}
StatusLineCount(w) ==
    Cardinality({<<i, j>> \in (1..Len(w)) \X (1..8) :
                   j <= Len(w[i].lines) /\ w[i].lines[j].status # 0})

\* The request is over: socketserver reports an exception that left the
\* handler (handle_error), closes the connection and serve_forever goes on.
\* The request may be remembered as the one later requests are compared to.
Finish ==
    /\ pc = "handled"
    /\ pc' = "idle"
    /\ failedBefore' = (failedBefore \/ raised \/ 500 \in Statuses(wire))
    /\ \/ ref' = ref
       \/ /\ ~ref.set
          /\ ref' = [set |-> TRUE, req |-> req, env |-> env, wire |-> wire,
                     fetches |-> fetches]
    /\ req' = NoReq
    /\ env' = NoEnv
    /\ wire' = <<>>
    /\ raised' = FALSE
    /\ fetches' = 0
    /\ UNCHANGED <<interrupted, parseVars>>

\* KeyboardInterrupt: not an Exception, so no handler catches it; run_server
\* catches it around serve_forever and returns.
Interrupt ==
    /\ pc # "stopped"
    /\ pc' = "stopped"
    /\ interrupted' = TRUE
    /\ UNCHANGED <<req, env, wire, raised, fetches, ref, failedBefore, parseVars>>

Next ==
    \/ \E method \in Methods, path \in Paths : Accept(method, path)
    \/ DoGet
    \/ DoHead
    \/ Unsupported
    \/ Finish
    \/ Interrupt

Spec == Init /\ [][Next]_vars

(***************************************************************************)
(* Claims about the server, checked under Spec.                            *)
(***************************************************************************)
HandledGet == pc = "handled" /\ req.method = "GET"
HandledAir == HandledGet /\ req.path = "/air"

Response404 ==
    << HeadChunk(<<StatusLine(404),
                   Header("Content-Type", "text/plain; charset=utf-8"), BlankLine>>),
       BodyChunk(PlainText(NotFoundText)) >>
Response500(msg) ==
    << HeadChunk(<<StatusLine(500),
                   Header("Content-Type", "application/json; charset=utf-8"), BlankLine>>),
       BodyChunk(JsonError(msg)) >>
BodyKinds(w) == {w[i].data.t : i \in {c \in 1..Len(w) : w[c].k = "body"}}

\* C1: every accepted request, whatever its method and path, is answered
\* with one response of status 200, 404 or 500 (here: when no client write
\* fails), and the serve loop is left only on interrupt.
C1_Original ==
    /\ (pc = "handled" /\ env.fails = {}) =>
         /\ ~raised
         /\ StatusLineCount(wire) = 1
         /\ Statuses(wire) \subseteq {200, 404, 500}
    /\ pc = "stopped" => interrupted

\* C2: once the 200 status line and headers of a request have been sent,
\* no 500 status line and no error body is written for that request.
C2_Original ==
    pc = "handled" =>
        \A i \in 1..Len(wire), j \in 1..Len(wire) :
            (i < j /\ Statuses(<<wire[i]>>) = {200}) =>
                /\ 500 \notin Statuses(<<wire[j]>>)
                /\ wire[j].data.t # "json_error"

\* The fetch failed, or some non-blank line of the fetched text fails its
\* numeric coercion.
BadUpstream(up) ==
    \/ up.kind \in {"urlerror", "undecodable"}
    \/ /\ up.kind = "text"
       /\ \E i \in 1..Len(Split(up.text, NL)) :
            LET l == Split(up.text, NL)[i]
            IN  Strip(l) # <<>> /\ ~_parse_wifi_line(l).ok

\* C3: for GET /air with a failed fetch or a line whose numeric coercion
\* fails, no 200 status line and no array of records is ever written, and
\* the response (complete when no client write fails) is the 500 JSON
\* error whose message is "Error procesando datos: " and the description.
C3_AllOrNothing ==
    (HandledAir /\ BadUpstream(env.up)) =>
        /\ 200 \notin Statuses(wire)
        /\ "json_array" \notin BodyKinds(wire)
        /\ env.fails = {} =>
             /\ ~raised
             /\ Len(wire) = 2
             /\ wire = Response500(wire[2].data.msg)
             /\ wire[2].data.msg.prefix = ErrorPrefix
             /\ wire[2].data.msg.err # ""

\* The second line of the text fails; the answer is the 500 error alone.
C3_Witness ==
    /\ HandledAir
    /\ env.up = [kind |-> "text",
                 text |-> <<"a", COMMA, "1", NL, "a", COMMA, "b", COMMA, "x">>]
    /\ env.fails = {}
    /\ Statuses(wire) = {500}
    /\ wire[2].data.msg = [prefix |-> ErrorPrefix,
                           err |-> "could not convert string to float",
                           tok |-> <<"x">>]

\* C4: a GET reaches the data-serving behaviour (and so the fetch) exactly
\* when its path is /air; a GET to any other path writes no status but 404
\* and no JSON, and its response (complete when no client write fails) is
\* the 404 plain-text response with the exact body.
C4_Routing ==
    HandledGet =>
        /\ (fetches > 0) <=> (req.path = "/air")
        /\ req.path # "/air" =>
             /\ Statuses(wire) \subseteq {404}
             /\ BodyKinds(wire) \subseteq {"text"}
             /\ env.fails = {} => (~raised /\ wire = Response404)

C4_Witness ==
    /\ HandledGet
    /\ req.path = "/air?x=1"
    /\ env.fails = {}
    /\ fetches = 0
    /\ wire = Response404

\* C5: a request whose method is not GET is answered like a GET to an
\* unmatched path: its status is 404 and it has no other status (here: when
\* no client write fails).
C5_Original ==
    (pc = "handled" /\ req.method # "GET" /\ env.fails = {}) =>
        Statuses(wire) = {404}

ParsedLine == pout.done /\ pin.kind \in {"raw", "fields"}
ParsedFields == pout.done /\ pin.kind = "fields"
ParsedContent == pout.done /\ pin.kind = "content"

\* The table of the record: type and default of each position.
FieldType(i) ==
    IF i \in {3, 6} THEN "float" ELSE IF i \in {4, 9} THEN "int" ELSE "str"
FieldDefault(i) ==
    IF i \in {3, 6} THEN FloatV(FALSE, 0, 1)
    ELSE IF i \in {4, 9} THEN IntV(FALSE, 0)
    ELSE IF i \in {5, 8, 10, 11} THEN StrV(Hex0)
    ELSE StrV(<<>>)

\* The value v is the token tok read as the type ty.
Holds(v, tok, ty) ==
    CASE ty = "str" -> v = StrV(tok)
      [] ty = "float" -> ToFloat(tok).ok /\ v = ToFloat(tok).val
      [] ty = "int" -> ToInt(tok).ok /\ v = ToInt(tok).val

\* C7 as stated: an accepted line gives exactly the 15 keys; positions
\* below the number k of cleaned tokens hold the tokens, in order, and the
\* positions from k on hold their defaults.
C7_Original ==
    (ParsedLine /\ pout.line.ok) =>
        LET cf  == pout.cleaned
            rec == pout.line.rec
        IN  /\ DOMAIN rec = KeySet
            /\ \A i \in 1..15 :
                 IF i <= Len(cf) THEN Holds(rec[Keys[i]], cf[i], FieldType(i))
                 ELSE rec[Keys[i]] = FieldDefault(i)

\* C7 as amended: an accepted line gives exactly the 15 keys; a position
\* below k holds its token (read as a float or an int at the numeric
\* positions), except that an empty token at a numeric position gives the
\* default; positions from k on hold their defaults; tokens past the 15th
\* are ignored; the two-field example line gives bss and tsf and defaults.
C7_RecordShape ==
    /\ (ParsedLine /\ pout.line.ok) =>
        LET cf  == pout.cleaned
            rec == pout.line.rec
        IN  /\ DOMAIN rec = KeySet
            /\ Cardinality(KeySet) = 15
            /\ \A i \in 1..15 :
                 IF i <= Len(cf) /\ (FieldType(i) = "str" \/ cf[i] # <<>>)
                 THEN Holds(rec[Keys[i]], cf[i], FieldType(i))
                 ELSE rec[Keys[i]] = FieldDefault(i)
    /\ (ParsedFields /\ pin.fields = ExampleShort) =>
        /\ pout.line.ok
        /\ pout.line.rec.bss = StrV(ExampleShort[1])
        /\ pout.line.rec.tsf = StrV(ExampleShort[2])
        /\ \A i \in 3..15 : pout.line.rec[Keys[i]] = FieldDefault(i)

\* More than 15 tokens, one of them empty at the freq position, accepted.
C7_Witness ==
    /\ ParsedFields
    /\ pout.line.ok
    /\ Len(pout.cleaned) > 15
    /\ pout.cleaned[3] = <<>>
    /\ pout.line.rec.freq = FloatV(FALSE, 0, 1)
    /\ pout.line.rec.suite = StrV(<<"1", "5">>)

\* The shapes of a field of a comma-separated line.
IsPlainField(f) == \A i \in 1..Len(f) : f[i] \notin {COMMA, QUOTE}
IsQuotedField(f) ==
    /\ Len(f) >= 2
    /\ f[1] = QUOTE
    /\ f[Len(f)] = QUOTE
    /\ \A i \in 2..(Len(f) - 1) : f[i] # QUOTE
Inner(f) == SubSeq(f, 2, Len(f) - 1)
\* What a field contains: the text between the quotes or the plain run,
\* without the surrounding whitespace.
FieldContent(f) == IF IsQuotedField(f) THEN Strip(Inner(f)) ELSE Strip(f)
IsProperField(f) ==
    (IsPlainField(f) \/ IsQuotedField(f)) /\ FieldContent(f) # <<>>

\* C8: for a line of comma-separated fields, each a non-blank plain run or
\* a non-blank quoted span, the cleaned tokens are the field contents in
\* order, one token per field, commas inside quotes kept; in the example
\* line ssid is 'My, Home Network' and primary_channel is 6.
C8_QuotedSpanOneToken ==
    /\ (ParsedFields /\ pin.fields # <<>>
          /\ \A i \in 1..Len(pin.fields) : IsProperField(pin.fields[i])) =>
        pout.cleaned = [i \in 1..Len(pin.fields) |-> FieldContent(pin.fields[i])]
    /\ (ParsedFields /\ pin.fields = ExampleQuoted) =>
        /\ pout.line.ok
        /\ pout.line.rec.ssid = StrV(MyHomeNetwork)
        /\ pout.line.rec.primary_channel = IntV(FALSE, 6)

C8_Witness ==
    /\ ParsedFields
    /\ pin.fields = ExampleQuoted
    /\ Len(pout.cleaned) = 9
    /\ pout.cleaned[7] = MyHomeNetwork
    /\ COMMA \in {MyHomeNetwork[i] : i \in 1..Len(MyHomeNetwork)}

NonBlankLines(ls) == SelectSeq(ls, LAMBDA l : Strip(l) # <<>>)

\* C9: for a text whose non-blank lines all parse, the result has one
\* record per non-blank line, the i-th being the parse of the i-th
\* non-blank line, blank lines skipped and repeated lines kept.
C9_OneRecordPerLine ==
    (ParsedContent
       /\ \A i \in 1..Len(pin.fields) :
            Strip(pin.fields[i]) # <<>> => _parse_wifi_line(pin.fields[i]).ok) =>
        LET nb == NonBlankLines(pin.fields)
        IN  /\ pout.content.ok
            /\ Len(pout.content.recs) = Len(nb)
            /\ \A i \in 1..Len(nb) :
                 pout.content.recs[i] = _parse_wifi_line(nb[i]).rec

\* The same line twice with a blank line between: two equal records.
C9_Witness ==
    /\ ParsedContent
    /\ pin.fields = << <<"a", COMMA, "1">>, <<SP>>, <<"a", COMMA, "1">> >>
    /\ pout.content.ok
    /\ Len(pout.content.recs) = 2
    /\ pout.content.recs[1] = pout.content.recs[2]
    /\ pout.content.recs[1].tsf = StrV(<<"1">>)

\* C10 as stated: the cleaned sequence never contains an empty string.
C10_Original ==
    ParsedLine => \A i \in 1..Len(pout.cleaned) : pout.cleaned[i] # <<>>

IsBlankPlain(f) == IsPlainField(f) /\ Strip(f) = <<>>

\* C10 as amended: a token is dropped only when it is whitespace-only as
\* matched, before its quotes are removed.  For a line of comma-separated
\* plain or quoted fields the cleaned tokens are the contents of the fields
\* that are not blank plain runs: an empty or blank quoted field keeps its
\* position as an empty string, a blank plain field is dropped and shifts
\* the later fields one position to the left.
C10_OnlyBlankPlainDropped ==
    /\ (ParsedFields
          /\ \A i \in 1..Len(pin.fields) :
               IsPlainField(pin.fields[i]) \/ IsQuotedField(pin.fields[i])) =>
        LET kept == SelectSeq(pin.fields, LAMBDA f : ~IsBlankPlain(f))
        IN  pout.cleaned = [i \in 1..Len(kept) |-> FieldContent(kept[i])]
    /\ ParsedLine =>
        LET toks == FindAll(pin.text)
        IN  Cardinality({i \in 1..Len(pout.cleaned) : pout.cleaned[i] = <<>>})
              = Cardinality({i \in 1..Len(toks) :
                               IsQuotedField(toks[i]) /\ Strip(Inner(toks[i])) = <<>>})

\* An empty quoted field in the middle of a line, kept as an empty token.
C10_Witness ==
    /\ ParsedFields
    /\ pin.fields = << <<"a">>, <<QUOTE, QUOTE>>, <<"7">> >>
    /\ pout.cleaned = << <<"a">>, <<>>, <<"7">> >>
    /\ pout.line.rec.freq = FloatV(FALSE, 7, 1)

====
